---- MODULE Spec2Model ----
(***************************************************************************)
(* Model of pkg/scalers/selenium_grid_scaler.go: the Selenium Grid scaler  *)
(* of KEDA.  Two specifications share the pure definitions:                *)
(*   SpecCalc  getCountFromSeleniumResponse run one loop iteration at a    *)
(*             time on every snapshot and target of the bounded inputs;    *)
(*   Spec      concurrent IsActive / GetMetrics invocations of two scalers *)
(*             against one grid whose state changes between fetches.       *)
(* Strings whose content matters (browser versions) are sequences of       *)
(* characters; int64 values are four 16-bit limbs in two's complement.     *)
(***************************************************************************)
EXTENDS Integers, Sequences, FiniteSets, TLC

\* ------------------------------------------------------------------------
\* Bounds of the inputs
\* ------------------------------------------------------------------------
\* len(sessionQueueRequests) + len(sessions) of the snapshots SpecCalc draws
MaxEntries == 3

\* ------------------------------------------------------------------------
\* Strings
\* ------------------------------------------------------------------------
DefaultBrowserVersion == <<"l", "a", "t", "e", "s", "t">>

EmptyString == <<>>
V96 == <<"9", "6">>
V97 == <<"9", "7">>
V96Full == <<"9", "6", ".", "0", ".", "4", "6", "6", "4", ".", "4", "5">>

\* strings.HasPrefix(s, prefix)
HasPrefix(s, prefix) ==
    /\ Len(prefix) <= Len(s)
    /\ SubSeq(s, 1, Len(prefix)) = prefix

\* ------------------------------------------------------------------------
\* int64: <<l1, l2, l3, l4>>, value = l1 + l2*2^16 + l3*2^32 + l4*2^48
\* read as a two's complement 64-bit pattern
\* ------------------------------------------------------------------------
Limb == 2^16

Zero64 == <<0, 0, 0, 0>>
One64 == <<1, 0, 0, 0>>
MaxInt64 == <<Limb - 1, Limb - 1, Limb - 1, (Limb \div 2) - 1>>

\* a + b, wrapping at 2^64 as Go's int64 addition does
Add64(a, b) ==
    LET s1 == a[1] + b[1]
        s2 == a[2] + b[2] + (s1 \div Limb)
        s3 == a[3] + b[3] + (s2 \div Limb)
        s4 == a[4] + b[4] + (s3 \div Limb)
    IN  <<s1 % Limb, s2 % Limb, s3 % Limb, s4 % Limb>>

Not64(a) == <<Limb - 1 - a[1], Limb - 1 - a[2], Limb - 1 - a[3], Limb - 1 - a[4]>>

Neg64(a) == Add64(Not64(a), One64)

Sub64(a, b) == Add64(a, Neg64(b))

IsNeg64(a) == a[4] >= Limb \div 2

\* a > 0 on int64
IsPos64(a) == ~IsNeg64(a) /\ a # Zero64

Abs64(a) == IF IsNeg64(a) THEN Neg64(a) ELSE a

\* the int64 of a model integer |n| < 2^31
FromInt(n) ==
    IF n >= 0 THEN <<n % Limb, n \div Limb, 0, 0>>
    ELSE Neg64(<<(-n) % Limb, (-n) \div Limb, 0, 0>>)

\* the model integer of an int64 whose magnitude is below 2^31
ToInt(a) ==
    LET m == Abs64(a)
        v == m[1] + m[2] * Limb
    IN  IF IsNeg64(a) THEN -v ELSE v

\* unsigned a < b
ULess64(a, b) ==
    \/ a[4] < b[4]
    \/ a[4] = b[4] /\ a[3] < b[3]
    \/ a[4] = b[4] /\ a[3] = b[3] /\ a[2] < b[2]
    \/ a[4] = b[4] /\ a[3] = b[3] /\ a[2] = b[2] /\ a[1] < b[1]

\* (a << 1) | bit
Shl64(a, bit) ==
    LET s1 == 2 * a[1] + bit
        s2 == 2 * a[2] + (s1 \div Limb)
        s3 == 2 * a[3] + (s2 \div Limb)
        s4 == 2 * a[4] + (s3 \div Limb)
    IN  <<s1 % Limb, s2 % Limb, s3 % Limb, s4 % Limb>>

\* bit i (0 = least significant) of a
Bit64(a, i) == (a[(i \div 16) + 1] \div (2^(i % 16))) % 2

\* one step of shift-and-subtract long division: st = <<quotient, remainder>>
\* before bit i of the dividend a is brought down, the result the same after
UDivStep(a, b, i, st) ==
    LET r == Shl64(st[2], Bit64(a, i))
    IN  IF ULess64(r, b)
        THEN <<Shl64(st[1], 0), r>>
        ELSE <<Shl64(st[1], 1), Sub64(r, b)>>

\* the steps for the bits hi, hi-1, ..., lo of a, in that order (the test on
\* upper makes the evaluation finish the upper half before the lower starts,
\* which keeps the evaluation stack logarithmic in the number of bits)
RECURSIVE UDivBits(_, _, _, _, _)
UDivBits(a, b, hi, lo, st) ==
    IF hi = lo THEN UDivStep(a, b, hi, st)
    ELSE LET mid == (hi + lo + 1) \div 2
             upper == UDivBits(a, b, hi, mid, st)
         IN  IF Len(upper) = 2 THEN UDivBits(a, b, mid - 1, lo, upper) ELSE upper

\* unsigned a / d for a divisor d of one limb below 2^15: schoolbook short
\* division, most significant limb first
UDivShort(a, d) ==
    LET t4 == a[4]
        t3 == (t4 % d) * Limb + a[3]
        t2 == (t3 % d) * Limb + a[2]
        t1 == (t2 % d) * Limb + a[1]
    IN  <<t1 \div d, t2 \div d, t3 \div d, t4 \div d>>

\* the number of limbs of b up to its most significant non-zero one
TopLimb(b) ==
    IF b[4] # 0 THEN 4 ELSE IF b[3] # 0 THEN 3 ELSE IF b[2] # 0 THEN 2 ELSE 1

\* a >> (16 * n)
ShrLimbs(a, n) == [k \in 1..4 |-> IF k + n <= 4 THEN a[k + n] ELSE 0]

\* unsigned a / b, b # 0.  A divisor of k limbs is at least 2^(16(k-1)), so
\* the top k-1 limbs of a are below it: long division starts with them as
\* the remainder and brings down the other bits.
UDiv64(a, b) ==
    IF TopLimb(b) = 1 /\ b[1] < Limb \div 2 THEN UDivShort(a, b[1])
    ELSE LET low == 16 * (5 - TopLimb(b))
         IN  UDivBits(a, b, low - 1, 0, <<Zero64, ShrLimbs(a, 5 - TopLimb(b))>>)[1]

\* a / b on int64, b # 0: Go's quotient truncated toward zero
Div64(a, b) ==
    LET q == UDiv64(Abs64(a), Abs64(b))
    IN  IF IsNeg64(a) # IsNeg64(b) THEN Neg64(q) ELSE q

\* ------------------------------------------------------------------------
\* Configuration: NewSeleniumGridScaler / parseSeleniumGridScalerMetadata
\* ------------------------------------------------------------------------
\* a key of config.TriggerMetadata: present with a value, or absent
Given(v) == [present |-> TRUE, val |-> v]
NotGiven(zero) == [present |-> FALSE, val |-> zero]

\* the TriggerMetadata maps the scalers are built from
Configs ==
    [url : {Given("http://grid/graphql"), Given("http://[grid/graphql"), NotGiven("")},
     browserName : {Given("chrome"), NotGiven("")},
     browserVersion : {Given(V96), Given(V97), Given(DefaultBrowserVersion),
                       Given(EmptyString), NotGiven(EmptyString)},
     unsafeSsl : {Given("true"), Given("yes"), NotGiven("")}]

\* url.Parse inside http.NewRequestWithContext: an unclosed "[" in the host
\* is one of the texts it rejects
URLParses(url) == url \notin {"http://[grid/graphql"}

\* strconv.ParseBool: the accepted spellings, anything else is an error
ParseBool(str) ==
    IF str \in {"1", "t", "T", "TRUE", "true", "True"} THEN [err |-> FALSE, val |-> TRUE]
    ELSE IF str \in {"0", "f", "F", "FALSE", "false", "False"} THEN [err |-> FALSE, val |-> FALSE]
    ELSE [err |-> TRUE, val |-> FALSE]

\* the mutation of parseSeleniumGridScalerMetadata that keeps an empty
\* browserVersion instead of defaulting it
parseSeleniumGridScalerMetadataNoDefault(config) ==
    LET meta == [url |-> config.url.val,
                 browserName |-> config.browserName.val,
                 targetValue |-> 1,
                 browserVersion |-> IF config.browserVersion.present
                                    THEN config.browserVersion.val
                                    ELSE DefaultBrowserVersion,
                 unsafeSsl |-> config.unsafeSsl.present /\ ParseBool(config.unsafeSsl.val).val]
    IN  IF ~config.url.present THEN [err |-> TRUE, meta |-> meta]
        ELSE IF ~config.browserName.present THEN [err |-> TRUE, meta |-> meta]
        ELSE IF config.unsafeSsl.present /\ ParseBool(config.unsafeSsl.val).err
             THEN [err |-> TRUE, meta |-> meta]
        ELSE [err |-> FALSE, meta |-> meta]

parseSeleniumGridScalerMetadata(config) ==
    LET meta == [url |-> config.url.val,
                 browserName |-> config.browserName.val,
                 targetValue |-> 1,
                 browserVersion |-> IF config.browserVersion.present
                                       /\ config.browserVersion.val # EmptyString
                                    THEN config.browserVersion.val
                                    ELSE DefaultBrowserVersion,
                 unsafeSsl |-> config.unsafeSsl.present /\ ParseBool(config.unsafeSsl.val).val]
    IN  IF ~config.url.present THEN [err |-> TRUE, meta |-> meta]
        ELSE IF ~config.browserName.present THEN [err |-> TRUE, meta |-> meta]
        ELSE IF config.unsafeSsl.present /\ ParseBool(config.unsafeSsl.val).err
             THEN [err |-> TRUE, meta |-> meta]
        ELSE [err |-> FALSE, meta |-> meta]

\* the metadata of the scalers NewSeleniumGridScaler returns without error
ScalerMetadata ==
    {parseSeleniumGridScalerMetadata(c).meta :
        c \in {d \in Configs : ~parseSeleniumGridScalerMetadata(d).err}}

\* ------------------------------------------------------------------------
\* JSON texts and their decoding
\* ------------------------------------------------------------------------
\* a member of a JSON object: absent, a JSON string, or a JSON number
JAbsent(zero) == [t |-> "absent", s |-> zero]
JString(str) == [t |-> "string", s |-> str]
JNumber(zero) == [t |-> "number", s |-> zero]

\* a capability text: not JSON at all, or a JSON object with its two members
NotJSON == [wellFormed |-> FALSE, browserName |-> JAbsent(""), browserVersion |-> JAbsent(EmptyString)]
CapabilityText(n, v) == [wellFormed |-> TRUE, browserName |-> n, browserVersion |-> v]

ChromeNoVersion == CapabilityText(JString("chrome"), JAbsent(EmptyString))
Chrome96 == CapabilityText(JString("chrome"), JString(V96Full))
ChromeLatest == CapabilityText(JString("chrome"), JString(DefaultBrowserVersion))
Firefox96 == CapabilityText(JString("firefox"), JString(V96Full))
ChromeNumericVersion == CapabilityText(JString("chrome"), JNumber(EmptyString))

\* the capability texts the snapshots are built from
CapabilityTexts ==
    {ChromeNoVersion, Chrome96, ChromeLatest, Firefox96, ChromeNumericVersion, NotJSON}

\* json.Unmarshal([]byte(text), &capability) on a zero capability: a syntax
\* error or a member of the wrong JSON type is an error, an absent member
\* leaves the zero value
UnmarshalCapability(text) ==
    IF ~text.wellFormed
    THEN [err |-> TRUE, BrowserName |-> "", BrowserVersion |-> EmptyString]
    ELSE [err |-> text.browserName.t = "number" \/ text.browserVersion.t = "number",
          BrowserName |-> IF text.browserName.t = "string" THEN text.browserName.s ELSE "",
          BrowserVersion |-> IF text.browserVersion.t = "string"
                             THEN text.browserVersion.s ELSE EmptyString]

\* type seleniumSession
seleniumSession(text) == [ID |-> "id", Capabilities |-> text, NodeID |-> "node"]

\* type seleniumResponse, as the bytes of a response body: a text that
\* decodes into the struct, or one that does not
ResponseBody(maxSession, requests, sessions) ==
    [decodes |-> TRUE,
     Data |-> [Grid |-> [MaxSession |-> maxSession],
               SessionsInfo |-> [SessionQueueRequests |-> requests,
                                 Sessions |-> sessions]]]

UndecodableBody == [decodes |-> FALSE, Data |-> <<>>]

\* json.Unmarshal(b, &seleniumResponse)
UnmarshalResponse(b) ==
    IF b.decodes THEN [err |-> FALSE, Data |-> b.Data]
    ELSE [err |-> TRUE,
          Data |-> [Grid |-> [MaxSession |-> Zero64],
                    SessionsInfo |-> [SessionQueueRequests |-> <<>>, Sessions |-> <<>>]]]

\* ------------------------------------------------------------------------
\* getCountFromSeleniumResponse
\* ------------------------------------------------------------------------
\* QueueIncrement with the fallback of the sessions loop: "latest" matches
\* whatever the entry's version
QueueIncrementAnyVersion(sessionQueueRequest, browserName, browserVersion) ==
    LET capability == UnmarshalCapability(sessionQueueRequest)
    IN  IF ~capability.err
        THEN IF capability.BrowserName = browserName
             THEN IF HasPrefix(capability.BrowserVersion, browserVersion) THEN 1
                  ELSE IF browserVersion = DefaultBrowserVersion THEN 1
                  ELSE 0
             ELSE 0
        ELSE 0

\* QueueIncrement with the error of json.Unmarshal ignored
QueueIncrementIgnoringError(sessionQueueRequest, browserName, browserVersion) ==
    LET capability == UnmarshalCapability(sessionQueueRequest)
    IN  IF capability.BrowserName = browserName
        THEN IF HasPrefix(capability.BrowserVersion, browserVersion) THEN 1
             ELSE IF capability.BrowserVersion = EmptyString
                     /\ browserVersion = DefaultBrowserVersion THEN 1
             ELSE 0
        ELSE 0

\* what one iteration of the loop over sessionQueueRequests adds to count
QueueIncrement(sessionQueueRequest, browserName, browserVersion) ==
    LET capability == UnmarshalCapability(sessionQueueRequest)
    IN  IF ~capability.err
        THEN IF capability.BrowserName = browserName
             THEN IF HasPrefix(capability.BrowserVersion, browserVersion) THEN 1
                  ELSE IF capability.BrowserVersion = EmptyString
                          /\ browserVersion = DefaultBrowserVersion THEN 1
                  ELSE 0
             ELSE 0
        ELSE 0

\* SessionIncrement with the fallback of the queue loop: "latest" matches an
\* empty version only
SessionIncrementEmptyOnly(session, browserName, browserVersion) ==
    LET capability == UnmarshalCapability(session.Capabilities)
    IN  IF ~capability.err
        THEN IF capability.BrowserName = browserName
             THEN IF HasPrefix(capability.BrowserVersion, browserVersion) THEN 1
                  ELSE IF capability.BrowserVersion = EmptyString
                          /\ browserVersion = DefaultBrowserVersion THEN 1
                  ELSE 0
             ELSE 0
        ELSE 0

\* SessionIncrement with two independent ifs in place of if / else if
SessionIncrementBothBranches(session, browserName, browserVersion) ==
    LET capability == UnmarshalCapability(session.Capabilities)
    IN  IF ~capability.err /\ capability.BrowserName = browserName
        THEN (IF HasPrefix(capability.BrowserVersion, browserVersion) THEN 1 ELSE 0)
             + (IF browserVersion = DefaultBrowserVersion THEN 1 ELSE 0)
        ELSE 0

\* what one iteration of the loop over sessions adds to count
SessionIncrement(session, browserName, browserVersion) ==
    LET capability == UnmarshalCapability(session.Capabilities)
    IN  IF ~capability.err
        THEN IF capability.BrowserName = browserName
             THEN IF HasPrefix(capability.BrowserVersion, browserVersion) THEN 1
                  ELSE IF browserVersion = DefaultBrowserVersion THEN 1
                  ELSE 0
             ELSE 0
        ELSE 0

\* the seleniumGridLog.Error calls of one iteration
LogIncrement(text) == IF UnmarshalCapability(text).err THEN 1 ELSE 0

\* lines 249-253: count = (count + gridMaxSession - 1) / gridMaxSession on
\* int64 when gridMaxSession > 0
Normalize(count, gridMaxSession) ==
    IF IsPos64(gridMaxSession)
    THEN ToInt(Div64(Sub64(Add64(FromInt(count), gridMaxSession), One64), gridMaxSession))
    ELSE count

\* the loop over sessionQueueRequests from index i on
RECURSIVE ScanQueue(_, _, _, _, _)
ScanQueue(requests, i, count, browserName, browserVersion) ==
    IF i > Len(requests) THEN count
    ELSE ScanQueue(requests, i + 1,
                   count + QueueIncrement(requests[i], browserName, browserVersion),
                   browserName, browserVersion)

\* the loop over sessions from index i on
RECURSIVE ScanSessions(_, _, _, _, _)
ScanSessions(sessions, i, count, browserName, browserVersion) ==
    IF i > Len(sessions) THEN count
    ELSE ScanSessions(sessions, i + 1,
                      count + SessionIncrement(sessions[i], browserName, browserVersion),
                      browserName, browserVersion)

\* the count before normalisation
MatchedCount(b, browserName, browserVersion) ==
    LET info == UnmarshalResponse(b).Data.SessionsInfo
    IN  ScanSessions(info.Sessions, 1,
                     ScanQueue(info.SessionQueueRequests, 1, 0, browserName, browserVersion),
                     browserName, browserVersion)

\* getCountFromSeleniumResponse(b, browserName, browserVersion): (int64, error)
getCountFromSeleniumResponse(b, browserName, browserVersion) ==
    LET seleniumResponse == UnmarshalResponse(b)
    IN  IF seleniumResponse.err THEN [v |-> 0, err |-> "decode"]
        ELSE [v |-> Normalize(MatchedCount(b, browserName, browserVersion),
                              seleniumResponse.Data.Grid.MaxSession),
              err |-> "nil"]

\* ------------------------------------------------------------------------
\* The inputs of SpecCalc
\* ------------------------------------------------------------------------
SeqUpTo(S, n) == UNION {[1..k -> S] : k \in 0..n}

\* grid.maxSession values: negative, zero, small, and the largest int
MaxSessionValues == {FromInt(-1), Zero64, FromInt(2), MaxInt64}

\* the (browserName, browserVersion) of the scalers that can be built
TargetIdentities == {<<meta.browserName, meta.browserVersion>> : meta \in ScalerMetadata}

VARIABLES
    b, argName, argVersion,   \* the arguments of getCountFromSeleniumResponse
    cpc,                      \* where the call stands
    qi, si,                   \* the next index of each range loop
    count,                    \* the local count
    matched,                  \* history: count when the loops ended
    last,                     \* history: the last loop iteration and what it added
    logged,                   \* seleniumGridLog.Error calls so far
    ret                       \* the returned (int64, error)

calcVars == <<b, argName, argVersion, cpc, qi, si, count, matched, last, logged, ret>>

VARIABLES
    grid,       \* the snapshot the grid would answer with now
    pc,         \* per invocation: "idle", "sent", "received", "done"
    call,       \* per invocation: the scaler's metadata and the method called
    requests,   \* per invocation: the client.Do calls it made
    res,        \* per invocation: what client.Do returned
    closed,     \* per invocation: res.Body.Close() has run
    got,        \* per invocation: what getSessionsCount returned
    out         \* per invocation: what IsActive / GetMetrics returned

gridVars == <<grid, pc, call, requests, res, closed, got, out>>

vars == <<calcVars, gridVars>>

NoIteration == [loop |-> "none", text |-> NotJSON, added |-> 0]

\* ------------------------------------------------------------------------
\* Scalers, responses and the methods of seleniumGridScaler
\* ------------------------------------------------------------------------
Invocations == {1, 2}

Methods == {"IsActive", "GetMetrics"}

\* http.StatusOK
StatusOK == 200

\* a status the grid answers with when it fails
StatusInternalServerError == 500

ConfigOf(url, browserVersion) ==
    [url |-> Given(url), browserName |-> Given("chrome"),
     browserVersion |-> browserVersion, unsafeSsl |-> NotGiven("")]

\* s.metadata of the scalers in use: no version given, version 96, and a url
\* that does not parse
Scalers ==
    {parseSeleniumGridScalerMetadata(ConfigOf("http://grid/graphql", NotGiven(EmptyString))).meta,
     parseSeleniumGridScalerMetadata(ConfigOf("http://grid/graphql", Given(V96))).meta,
     parseSeleniumGridScalerMetadata(ConfigOf("http://[grid/graphql", NotGiven(EmptyString))).meta}

\* the snapshots the grid moves between: empty; one queued request without a
\* version, capacity unknown; one running session; both, two sessions per
\* node; both, the largest capacity an int holds
GridSnapshots ==
    {ResponseBody(FromInt(2), <<>>, <<>>),
     ResponseBody(Zero64, <<ChromeNoVersion>>, <<>>),
     ResponseBody(Zero64, <<>>, <<seleniumSession(Chrome96)>>),
     ResponseBody(FromInt(2), <<ChromeNoVersion>>, <<seleniumSession(Chrome96)>>),
     ResponseBody(MaxInt64, <<ChromeNoVersion>>, <<seleniumSession(Chrome96)>>)}

\* error values: which failure, and the status code a status error carries
Err(kind, code) == [kind |-> kind, code |-> code, wrapped |-> FALSE]
NilErr == Err("nil", 0)

\* what client.Do returns: an error, or a response with a status code and a
\* body; the body's bytes may fail to arrive (readable) or fail to decode
NoResponse ==
    [err |-> FALSE, StatusCode |-> 0, readable |-> FALSE, payload |-> UndecodableBody]
TransportError ==
    [err |-> TRUE, StatusCode |-> 0, readable |-> FALSE, payload |-> UndecodableBody]
Response(status, readable, payload) ==
    [err |-> FALSE, StatusCode |-> status, readable |-> readable, payload |-> payload]

\* lines 188-206 with the status check of lines 192-195 left out
getSessionsCountNoStatusCheck(meta, r) ==
    IF r.err THEN [v |-> -1, err |-> Err("transport", 0), closed |-> FALSE, scanned |-> FALSE]
    ELSE IF ~r.readable
         THEN [v |-> -1, err |-> Err("read", 0), closed |-> TRUE, scanned |-> FALSE]
    ELSE LET c == getCountFromSeleniumResponse(r.payload, meta.browserName, meta.browserVersion)
         IN  IF c.err # "nil"
             THEN [v |-> -1, err |-> Err("decode", 0), closed |-> TRUE, scanned |-> FALSE]
             ELSE [v |-> c.v, err |-> NilErr, closed |-> TRUE, scanned |-> TRUE]

\* getSessionsCount from the return of client.Do on (lines 188-206): the
\* returned (int64, error), whether the deferred res.Body.Close() ran, and
\* whether the matching pass ran
getSessionsCount(meta, r) ==
    IF r.err THEN [v |-> -1, err |-> Err("transport", 0), closed |-> FALSE, scanned |-> FALSE]
    ELSE IF r.StatusCode # StatusOK
         THEN [v |-> -1, err |-> Err("status", r.StatusCode), closed |-> FALSE,
               scanned |-> FALSE]
    ELSE IF ~r.readable
         THEN [v |-> -1, err |-> Err("read", 0), closed |-> TRUE, scanned |-> FALSE]
    ELSE LET c == getCountFromSeleniumResponse(r.payload, meta.browserName, meta.browserVersion)
         IN  IF c.err # "nil"
             THEN [v |-> -1, err |-> Err("decode", 0), closed |-> TRUE, scanned |-> FALSE]
             ELSE [v |-> c.v, err |-> NilErr, closed |-> TRUE, scanned |-> TRUE]

\* getSessionsCount when http.NewRequestWithContext fails (lines 182-185)
RequestNotBuilt == [v |-> -1, err |-> Err("request", 0), closed |-> FALSE, scanned |-> FALSE]

\* IsActive on what getSessionsCount returned
IsActive(g) ==
    IF g.err # NilErr THEN [active |-> FALSE, metrics |-> <<>>, err |-> g.err]
    ELSE [active |-> g.v > 0, metrics |-> <<>>, err |-> NilErr]

\* GetMetrics on what getSessionsCount returned
GetMetrics(g) ==
    IF g.err # NilErr
    THEN [active |-> FALSE, metrics |-> <<>>, err |-> [g.err EXCEPT !.wrapped = TRUE]]
    ELSE [active |-> FALSE, metrics |-> <<[MetricName |-> "metricName", Value |-> g.v]>>,
          err |-> NilErr]

Returns(method, g) == IF method = "IsActive" THEN IsActive(g) ELSE GetMetrics(g)

NoCall == [scaler |-> CHOOSE m \in Scalers : TRUE, method |-> "none"]
NotGot == [v |-> 0, err |-> Err("pending", 0), scanned |-> FALSE]
NoOut == [active |-> FALSE, metrics |-> <<>>, err |-> Err("pending", 0)]

\* ------------------------------------------------------------------------
\* getCountFromSeleniumResponse, one loop iteration at a time
\* ------------------------------------------------------------------------
NoReturn == [v |-> 0, err |-> "pending"]

\* the two lists of the decoded response
Requests == UnmarshalResponse(b).Data.SessionsInfo.SessionQueueRequests
Sessions == UnmarshalResponse(b).Data.SessionsInfo.Sessions

\* the loop the call is in once index q of the requests and s of the sessions
\* are the next ones
Phase(body, q, s) ==
    IF q <= Len(body.Data.SessionsInfo.SessionQueueRequests) THEN "queue"
    ELSE IF s <= Len(body.Data.SessionsInfo.Sessions) THEN "sessions"
    ELSE "normalize"

\* every target identity, with a body that does not decode or a snapshot of
\* at most MaxEntries queued requests and sessions together
InitCalc ==
    /\ \/ b = UndecodableBody
       \/ \E q \in SeqUpTo(CapabilityTexts, MaxEntries) :
          \E t \in SeqUpTo(CapabilityTexts, MaxEntries - Len(q)) :
          \E m \in MaxSessionValues :
            b = ResponseBody(m, q, [k \in 1..Len(t) |-> seleniumSession(t[k])])
    /\ \E target \in TargetIdentities :
        /\ argName = target[1]
        /\ argVersion = target[2]
    /\ cpc = "unmarshal"
    /\ qi = 1
    /\ si = 1
    /\ count = 0
    /\ matched = 0
    /\ last = NoIteration
    /\ logged = 0
    /\ ret = NoReturn
    /\ grid = ResponseBody(Zero64, <<>>, <<>>)
    /\ pc = [i \in Invocations |-> "idle"]
    /\ call = [i \in Invocations |-> NoCall]
    /\ requests = [i \in Invocations |-> 0]
    /\ res = [i \in Invocations |-> NoResponse]
    /\ closed = [i \in Invocations |-> FALSE]
    /\ got = [i \in Invocations |-> NotGot]
    /\ out = [i \in Invocations |-> NoOut]

\* lines 210-215
CalcUnmarshal ==
    /\ cpc = "unmarshal"
    /\ IF UnmarshalResponse(b).err
       THEN /\ ret' = [v |-> 0, err |-> "decode"]
            /\ cpc' = "done"
       ELSE /\ ret' = ret
            /\ cpc' = Phase(b, qi, si)
    /\ UNCHANGED <<b, argName, argVersion, qi, si, count, matched, last, logged, gridVars>>

\* lines 218-231, one iteration
CalcQueueRequest ==
    /\ cpc = "queue"
    /\ count' = count + QueueIncrement(Requests[qi], argName, argVersion)
    /\ last' = [loop |-> "queue", text |-> Requests[qi], added |-> count' - count]
    /\ logged' = logged + LogIncrement(Requests[qi])
    /\ qi' = qi + 1
    /\ cpc' = Phase(b, qi + 1, si)
    /\ UNCHANGED <<b, argName, argVersion, si, matched, ret, gridVars>>

\* lines 234-247, one iteration
CalcSession ==
    /\ cpc = "sessions"
    /\ count' = count + SessionIncrement(Sessions[si], argName, argVersion)
    /\ last' = [loop |-> "sessions", text |-> Sessions[si].Capabilities,
                 added |-> count' - count]
    /\ logged' = logged + LogIncrement(Sessions[si].Capabilities)
    /\ si' = si + 1
    /\ cpc' = Phase(b, qi, si + 1)
    /\ UNCHANGED <<b, argName, argVersion, qi, matched, ret, gridVars>>

\* lines 249-255
CalcNormalize ==
    /\ cpc = "normalize"
    /\ matched' = count
    /\ count' = Normalize(count, b.Data.Grid.MaxSession)
    /\ ret' = [v |-> count', err |-> "nil"]
    /\ cpc' = "done"
    /\ UNCHANGED <<b, argName, argVersion, qi, si, last, logged, gridVars>>

NextCalc == CalcUnmarshal \/ CalcQueueRequest \/ CalcSession \/ CalcNormalize

SpecCalc == InitCalc /\ [][NextCalc]_vars
\* ------------------------------------------------------------------------
\* Concurrent invocations of IsActive and GetMetrics against one grid
\* ------------------------------------------------------------------------
Init ==
    /\ grid \in GridSnapshots
    /\ pc = [i \in Invocations |-> "idle"]
    /\ call = [i \in Invocations |-> NoCall]
    /\ requests = [i \in Invocations |-> 0]
    /\ res = [i \in Invocations |-> NoResponse]
    /\ closed = [i \in Invocations |-> FALSE]
    /\ got = [i \in Invocations |-> NotGot]
    /\ out = [i \in Invocations |-> NoOut]
    /\ b = UndecodableBody
    /\ argName = ""
    /\ argVersion = EmptyString
    /\ cpc = "off"
    /\ qi = 1
    /\ si = 1
    /\ count = 0
    /\ matched = 0
    /\ last = NoIteration
    /\ logged = 0
    /\ ret = NoReturn

\* IsActive or GetMetrics is called on a scaler: lines 174-187, up to the
\* request being handed to client.Do
Call(i) ==
    /\ pc[i] = "idle"
    /\ \E meta \in Scalers, method \in Methods :
        /\ call' = [call EXCEPT ![i] = [scaler |-> meta, method |-> method]]
        /\ IF URLParses(meta.url)
           THEN /\ requests' = [requests EXCEPT ![i] = @ + 1]
                /\ pc' = [pc EXCEPT ![i] = "sent"]
                /\ UNCHANGED <<got, out>>
           ELSE /\ got' = [got EXCEPT ![i] = [v |-> RequestNotBuilt.v,
                                              err |-> RequestNotBuilt.err,
                                              scanned |-> RequestNotBuilt.scanned]]
                /\ out' = [out EXCEPT ![i] = Returns(method, RequestNotBuilt)]
                /\ pc' = [pc EXCEPT ![i] = "done"]
                /\ UNCHANGED requests
    /\ UNCHANGED <<grid, res, closed, calcVars>>

\* client.Do returns (line 187): a transport error (context cancellation
\* included), a failure status, or status 200 with a body that cannot be
\* read, one that does not decode, or the grid's snapshot of this moment
Respond(i) ==
    /\ pc[i] = "sent"
    /\ res' \in {[res EXCEPT ![i] = r] :
                    r \in {TransportError,
                           Response(StatusInternalServerError, TRUE, UndecodableBody),
                           Response(StatusOK, FALSE, UndecodableBody),
                           Response(StatusOK, TRUE, UndecodableBody),
                           Response(StatusOK, TRUE, grid)}}
    /\ pc' = [pc EXCEPT ![i] = "received"]
    /\ UNCHANGED <<grid, call, requests, closed, got, out, calcVars>>

\* Process reading the grid's snapshot of the moment it computes, as a cache
\* shared between invocations would provide, in place of its own response
ProcessSharedSnapshot(i) ==
    /\ pc[i] = "received"
    /\ LET g == getSessionsCount(call[i].scaler,
                    IF res[i].err \/ res[i].StatusCode # StatusOK \/ ~res[i].readable
                       \/ ~res[i].payload.decodes
                    THEN res[i] ELSE [res[i] EXCEPT !.payload = grid])
       IN  /\ got' = [got EXCEPT ![i] = [v |-> g.v, err |-> g.err, scanned |-> g.scanned]]
           /\ closed' = [closed EXCEPT ![i] = g.closed]
           /\ out' = [out EXCEPT ![i] = Returns(call[i].method, g)]
    /\ pc' = [pc EXCEPT ![i] = "done"]
    /\ UNCHANGED <<grid, call, requests, res, calcVars>>

\* lines 188-206 and the rest of IsActive / GetMetrics, on the invocation's
\* own response
Process(i) ==
    /\ pc[i] = "received"
    /\ LET g == getSessionsCount(call[i].scaler, res[i])
       IN  /\ got' = [got EXCEPT ![i] = [v |-> g.v, err |-> g.err, scanned |-> g.scanned]]
           /\ closed' = [closed EXCEPT ![i] = g.closed]
           /\ out' = [out EXCEPT ![i] = Returns(call[i].method, g)]
    /\ pc' = [pc EXCEPT ![i] = "done"]
    /\ UNCHANGED <<grid, call, requests, res, calcVars>>

\* the caller has the result; the invocation's locals are gone
Return(i) ==
    /\ pc[i] = "done"
    /\ pc' = [pc EXCEPT ![i] = "idle"]
    /\ call' = [call EXCEPT ![i] = NoCall]
    /\ requests' = [requests EXCEPT ![i] = 0]
    /\ res' = [res EXCEPT ![i] = NoResponse]
    /\ closed' = [closed EXCEPT ![i] = FALSE]
    /\ got' = [got EXCEPT ![i] = NotGot]
    /\ out' = [out EXCEPT ![i] = NoOut]
    /\ UNCHANGED <<grid, calcVars>>

\* sessions are queued, started and ended on the grid, nodes come and go
GridChange ==
    /\ grid' \in GridSnapshots \ {grid}
    /\ UNCHANGED <<pc, call, requests, res, closed, got, out, calcVars>>

Next ==
    \/ \E i \in Invocations : Call(i)
    \/ \E i \in Invocations : Respond(i)
    \/ \E i \in Invocations : Process(i)
    \/ \E i \in Invocations : Return(i)
    \/ GridChange

Spec == Init /\ [][Next]_vars

\* ------------------------------------------------------------------------
\* The matching rules and the arithmetic as the specification words them
\* ------------------------------------------------------------------------
\* the capability text is a JSON object whose members have the string type
Parses(text) ==
    /\ text.wellFormed
    /\ text.browserName.t # "number"
    /\ text.browserVersion.t # "number"

EntryName(text) == IF text.browserName.t = "string" THEN text.browserName.s ELSE ""
EntryVersion(text) ==
    IF text.browserVersion.t = "string" THEN text.browserVersion.s ELSE EmptyString

\* p is a prefix of s
IsPrefixOf(p, s) == \E k \in 0..Len(s) : SubSeq(s, 1, k) = p

QueueRule(text, name, version) ==
    /\ EntryName(text) = name
    /\ \/ IsPrefixOf(version, EntryVersion(text))
       \/ EntryVersion(text) = EmptyString /\ version = DefaultBrowserVersion

SessionRule(text, name, version) ==
    /\ EntryName(text) = name
    /\ \/ IsPrefixOf(version, EntryVersion(text))
       \/ version = DefaultBrowserVersion

\* ceil(c / m) over the integers, m > 0 an int64 and c >= 0 a small integer: a
\* divisor of more than 30 bits exceeds every c of the model
Ceil(c, m) ==
    IF m[3] = 0 /\ m[4] = 0 /\ m[2] < Limb \div 4
    THEN CHOOSE q \in 0..c : q * ToInt(m) >= c /\ (q = 0 \/ (q - 1) * ToInt(m) < c)
    ELSE IF c = 0 THEN 0 ELSE 1

Returned == cpc = "done" /\ ret.err = "nil"

\* C1: the returned value is ceil(matched / maxSession) when maxSession > 0 and
\* the matched count itself when maxSession <= 0.  (Fails: with maxSession near
\* the top of int64 the sum count + maxSession - 1 wraps.)
CeilingOfMatched ==
    Returned =>
        ret.v = IF IsPos64(b.Data.Grid.MaxSession)
                THEN Ceil(matched, b.Data.Grid.MaxSession)
                ELSE matched

\* C2: a queued request that parses adds 1 exactly when its browserName is the
\* target's and the target version is a prefix of its version, or its version
\* is empty and the target is "latest"; 96.0.4664.45 counts for 96, not for 97;
\* another browserName never counts.
QueuedRequestCountsIffRule ==
    (last.loop = "queue" /\ Parses(last.text)) =>
        /\ last.added \in {0, 1}
        /\ (last.added = 1) <=> QueueRule(last.text, argName, argVersion)
        /\ (last.text = Chrome96 /\ argName = "chrome" /\ argVersion = V96) => last.added = 1
        /\ (last.text = Chrome96 /\ argVersion = V97) => last.added = 0
        /\ EntryName(last.text) # argName => last.added = 0

QueuedRequestCounted ==
    /\ last.loop = "queue" /\ last.text = Chrome96
    /\ argVersion = V96 /\ last.added = 1 /\ count >= 1

\* C3: an active session that parses adds 1 exactly when its browserName is
\* the target's and the target version is a prefix of its version or the
\* target version is "latest": with "latest" every session of the browser
\* counts, with another target only the prefix matches.
SessionCountsIffRule ==
    (last.loop = "sessions" /\ Parses(last.text)) =>
        /\ last.added \in {0, 1}
        /\ (last.added = 1) <=> SessionRule(last.text, argName, argVersion)
        /\ (argVersion = DefaultBrowserVersion /\ EntryName(last.text) = argName)
                => last.added = 1
        /\ (argVersion # DefaultBrowserVersion /\ last.added = 1)
                => IsPrefixOf(argVersion, EntryVersion(last.text))

SessionCountedForLatest ==
    /\ last.loop = "sessions" /\ last.text = Chrome96
    /\ argVersion = DefaultBrowserVersion /\ last.added = 1 /\ count >= 1

\* C4 as claimed: with target "latest" and the target's browserName, EVERY
\* non-empty version matches as a session and does not match as a queued
\* request; an empty version matches only for target "latest".
AsymmetryForEveryVersion ==
    (last.loop # "none" /\ Parses(last.text) /\ EntryName(last.text) = argName) =>
        /\ (argVersion = DefaultBrowserVersion /\ EntryVersion(last.text) # EmptyString)
                => (last.added = 1) <=> (last.loop = "sessions")
        /\ (EntryVersion(last.text) = EmptyString /\ last.added = 1)
                => argVersion = DefaultBrowserVersion

\* C4 amended: with target "latest" and the target's browserName, every
\* non-empty version matches as a session; as a queued request it matches
\* exactly when it begins with "latest" itself; an empty version matches only
\* for target "latest".
AsymmetryExceptLatestPrefix ==
    (last.loop # "none" /\ Parses(last.text) /\ EntryName(last.text) = argName) =>
        /\ (argVersion = DefaultBrowserVersion /\ EntryVersion(last.text) # EmptyString)
                => /\ last.loop = "sessions" => last.added = 1
                   /\ last.loop = "queue" =>
                        ((last.added = 1)
                            <=> IsPrefixOf(DefaultBrowserVersion, EntryVersion(last.text)))
        /\ (EntryVersion(last.text) = EmptyString /\ last.added = 1)
                => argVersion = DefaultBrowserVersion

\* the same version queued and running, target "latest": only the session counted
AsymmetryObserved ==
    /\ argVersion = DefaultBrowserVersion
    /\ Requests = <<Chrome96>> /\ Sessions = <<seleniumSession(Chrome96)>>
    /\ cpc = "normalize" /\ last.loop = "sessions" /\ last.added = 1 /\ count = 1

\* C5: entries that do not parse are skipped without an error: the result is
\* the result for the snapshot without them, and a snapshot whose entries all
\* fail to parse returns 0 and no error.
WithoutUnparsable(body) ==
    LET keepQ == SelectSeq(body.Data.SessionsInfo.SessionQueueRequests, Parses)
        ParsesSession(x) == Parses(x.Capabilities)
        keepS == SelectSeq(body.Data.SessionsInfo.Sessions, ParsesSession)
    IN  ResponseBody(body.Data.Grid.MaxSession, keepQ, keepS)

UnparsableSkipped ==
    (cpc = "done" /\ b.decodes) =>
        /\ ret = getCountFromSeleniumResponse(WithoutUnparsable(b), argName, argVersion)
        /\ (Len(WithoutUnparsable(b).Data.SessionsInfo.SessionQueueRequests) = 0
            /\ Len(WithoutUnparsable(b).Data.SessionsInfo.Sessions) = 0)
                => ret = [v |-> 0, err |-> "nil"]

\* one of three queued requests does not parse, the other two count
UnparsableAmongThree ==
    /\ cpc = "done" /\ ret = [v |-> 2, err |-> "nil"] /\ logged = 1
    /\ Len(Requests) = 3 /\ ~Parses(Requests[2])
    /\ Parses(Requests[1]) /\ Parses(Requests[3])

\* C8: one pass: the indices only reach each entry once, the sessions loop
\* starts after the queue loop ended, an iteration adds 0 or 1, the running
\* count lies between 0 and the number of entries visited, the matched count
\* is at most the number of entries, and no entries give 0.
OnePassNoDoubleCount ==
    /\ last.added \in {0, 1}
    /\ qi \in 1..(Len(Requests) + 1) /\ si \in 1..(Len(Sessions) + 1)
    /\ (b.decodes /\ si > 1) => qi = Len(Requests) + 1
    /\ cpc \in {"queue", "sessions", "normalize"}
            => count >= 0 /\ count <= (qi - 1) + (si - 1)
    /\ Returned => /\ qi = Len(Requests) + 1 /\ si = Len(Sessions) + 1
                   /\ matched <= Len(Requests) + Len(Sessions)
                   /\ (Len(Requests) + Len(Sessions) = 0) => ret.v = 0

\* a session with version "latest" under target "latest" satisfies both
\* branches and was counted once
BothBranchesCountedOnce ==
    /\ cpc = "done" /\ argVersion = DefaultBrowserVersion
    /\ last.loop = "sessions" /\ last.text = ChromeLatest /\ last.added = 1
    /\ matched = Len(Requests) + Len(Sessions) /\ matched = 3
\* an invocation has returned / has returned after client.Do gave a response
Done(i) == pc[i] = "done"
GotResponse(i) == Done(i) /\ requests[i] >= 1 /\ ~res[i].err

\* C6 as claimed: every invocation issues exactly one request.
ExactlyOneRequest ==
    \A i \in Invocations : Done(i) => requests[i] = 1

\* C6 amended: an invocation issues at most one request, exactly one unless
\* the request cannot be built from the configured url, in which case none is
\* sent; a transport error, a status other than 200, an unreadable body and an
\* undecodable body each end in an error without a count computed (no
\* matching pass, IsActive false, GetMetrics empty), and the status error
\* carries the status code, unlike every other error.
AtMostOneRequestAndFatalErrors ==
    \A i \in Invocations :
        /\ requests[i] <= 1
        /\ pc[i] \in {"sent", "received"} => requests[i] = 1
        /\ Done(i) =>
            /\ (requests[i] = 0) <=> ~URLParses(call[i].scaler.url)
            /\ requests[i] = 0 => got[i].err.kind = "request"
            /\ (requests[i] = 1 /\ res[i].err) => got[i].err.kind = "transport"
            /\ (GotResponse(i) /\ res[i].StatusCode # StatusOK)
                    => got[i].err = Err("status", res[i].StatusCode)
            /\ (GotResponse(i) /\ res[i].StatusCode = StatusOK /\ ~res[i].readable)
                    => got[i].err.kind = "read"
            /\ (GotResponse(i) /\ res[i].StatusCode = StatusOK /\ res[i].readable
                /\ ~res[i].payload.decodes)
                    => got[i].err.kind = "decode"
            /\ got[i].err.kind = "status" => got[i].err.code # 0
            /\ got[i].err.kind # "status" => got[i].err.code = 0
            /\ got[i].err # NilErr =>
                    /\ got[i].v = -1 /\ ~got[i].scanned
                    /\ out[i].err.kind = got[i].err.kind
                    /\ ~out[i].active /\ out[i].metrics = <<>>
            /\ got[i].err = NilErr =>
                    /\ GotResponse(i) /\ res[i].StatusCode = StatusOK
                    /\ res[i].readable /\ res[i].payload.decodes

\* a 500 answer ended an invocation with the status error carrying 500
StatusErrorReturned ==
    \E i \in Invocations :
        /\ Done(i) /\ requests[i] = 1
        /\ res[i].StatusCode = StatusInternalServerError
        /\ got[i].err = Err("status", StatusInternalServerError)
        /\ ~got[i].scanned

\* C7: IsActive returns true exactly when at least one queued request or
\* active session of the fetched snapshot matches the target, for every
\* maxSession; a failed fetch gives false with the error, and an empty metric
\* list with an error from GetMetrics.  (Fails through C1: the wrapped sum makes
\* the value -1 for a positive matched count.)
ActiveIffSomethingMatches ==
    \A i \in Invocations : Done(i) =>
        /\ (call[i].method = "IsActive" /\ out[i].err = NilErr) =>
                /\ out[i].active <=> got[i].v > 0
                /\ out[i].active <=>
                      MatchedCount(res[i].payload, call[i].scaler.browserName,
                                   call[i].scaler.browserVersion) > 0
        /\ got[i].err # NilErr =>
                /\ ~out[i].active /\ out[i].metrics = <<>>
                /\ out[i].err # NilErr

\* C9: every invocation returns what the methods give on the response that it
\* received itself and its own scaler's target, whatever the other invocation
\* and the grid did meanwhile; two invocations with the same response, target
\* and method return the same.
OwnResponse(i) ==
    IF requests[i] = 0 THEN RequestNotBuilt ELSE getSessionsCount(call[i].scaler, res[i])

InvocationsIsolated ==
    /\ \A i \in Invocations : Done(i) =>
            out[i] = Returns(call[i].method, OwnResponse(i))
    /\ \A i, j \in Invocations :
            (Done(i) /\ Done(j) /\ res[i] = res[j] /\ call[i].method = call[j].method
             /\ call[i].scaler.browserName = call[j].scaler.browserName
             /\ call[i].scaler.browserVersion = call[j].scaler.browserVersion)
                => out[i] = out[j]

\* two invocations with different targets returned different values from
\* different snapshots, neither of which is the grid's current one
IsolationObserved ==
    /\ Done(1) /\ Done(2)
    /\ call[1].method = "GetMetrics" /\ call[2].method = "GetMetrics"
    /\ call[1].scaler.browserVersion # call[2].scaler.browserVersion
    /\ out[1].err = NilErr /\ out[2].err = NilErr
    /\ res[1].payload # res[2].payload
    /\ grid \notin {res[1].payload, res[2].payload}
    /\ out[1].metrics # out[2].metrics

\* C10: when client.Do returned a response, its body is closed by the time
\* getSessionsCount returns.  (Fails: the non-200 return precedes the defer.)
BodyClosedOnReturn ==
    \A i \in Invocations : GotResponse(i) => closed[i]
====
